---- MODULE Spec2Model ----
(***************************************************************************)
(* Model of migrations/apply-migration.js: the configuration check, the    *)
(* naive statement splitter, the sequential exec_sql loop, the read-only   *)
(* probe and the three ways the script ends.                               *)
(*                                                                         *)
(* Text is a sequence of one-character strings.  An environment variable   *)
(* is <<>> when unset and <<s>> when set to the string s.                  *)
(***************************************************************************)
EXTENDS Integers, Sequences, FiniteSets, TLC

VARIABLES
    supabaseUrl,      \* process.env.NEXT_PUBLIC_SUPABASE_API
    supabaseAnonKey,  \* process.env.NEXT_PUBLIC_PUBLIC_API_KEY
    fileReadable,     \* whether 001_create_scheduler_tables.sql can be read
    fileText,         \* content of the migration file
    pc,               \* position of the script
    migrationSQL,     \* const migrationSQL
    statements,       \* const statements
    i,                \* loop variable (0-based, as in the source)
    calls,            \* requests sent to the Supabase client, in order
    log,              \* lines written to the console, in order
    fileReads,        \* number of readFileSync calls
    exitCode          \* -1 while running, else the process exit status

vars == <<supabaseUrl, supabaseAnonKey, fileReadable, fileText, pc,
          migrationSQL, statements, i, calls, log, fileReads, exitCode>>

----------------------------------------------------------------------------
(* Bounds *)

MaxSrcLen == 5      \* longest migration file of a run
MaxTextLen == 4     \* longest text handed to the splitter alone

----------------------------------------------------------------------------
(* Text helpers *)

WhiteSpace == {" ", "\n", "\t", "\r"}

RunAlphabet == {";", "a", " ", "-"}
SplitAlphabet == {";", " ", "-", "a", "\\", "n"}

TextsUpTo(alphabet, n) == UNION {[1..k -> alphabet] : k \in 0..n}

RECURSIVE SplitFrom(_, _, _)
(* String.prototype.split(sep) for a one-character separator: scan from    *)
(* position p with the fragment cur collected so far.                      *)
SplitFrom(s, p, cur) ==
    IF p > Len(s) THEN <<cur>>
    ELSE IF s[p] = ";" THEN <<cur>> \o SplitFrom(s, p + 1, <<>>)
    ELSE SplitFrom(s, p + 1, Append(cur, s[p]))

Split(s) == SplitFrom(s, 1, <<>>)

RECURSIVE TrimStart(_)
TrimStart(s) ==
    IF s # <<>> /\ Head(s) \in WhiteSpace THEN TrimStart(Tail(s)) ELSE s

RECURSIVE TrimEnd(_)
TrimEnd(s) ==
    IF s # <<>> /\ s[Len(s)] \in WhiteSpace
    THEN TrimEnd(SubSeq(s, 1, Len(s) - 1)) ELSE s

\* variant: trailing whitespace is kept
Trim_StartOnly(s) == TrimStart(s)

Trim(s) == TrimEnd(TrimStart(s))

StartsWith(s, prefix) ==
    /\ Len(s) >= Len(prefix)
    /\ SubSeq(s, 1, Len(prefix)) = prefix

EscapedNewline == <<"\\", "n">>

Keep(stmt) ==
    /\ Len(stmt) > 0
    /\ ~StartsWith(stmt, <<"-", "-">>)
    /\ stmt # EscapedNewline

SplitStatementsOf(sql) ==
    LET fragments == Split(sql)
        trimmed == [k \in 1..Len(fragments) |-> Trim(fragments[k])]
    IN SelectSeq(trimmed, Keep)

----------------------------------------------------------------------------
(* Console lines *)

MissingConfigLines == <<"MissingEnv", "PleaseSetBothVariables">>

ManualFallbackLines ==
    <<"DirectNotAvailable", "RunManually", "Blank", "CopyContentsOfPath",
      "GoToDashboardUrl", "PasteAndRun", "Blank", "FileCreatedAtPath">>

CompletedLines ==
    <<"MigrationCompleted", "Blank", "DatabaseReady", "TablesCreated",
      "TableCourseSections", "TableUserSchedules",
      "TableSchedulePreferences", "Blank", "RlsApplied", "IndexesCreated">>

FailedLines ==
    <<"MigrationFailed", "Blank", "ManualStepsNeeded", "Step1DashboardUrl",
      "Step2CopyContentsOfPath", "Step3PasteAndExecute">>

Range(s) == {s[k] : k \in 1..Len(s)}

\* lines whose text contains migrations/001_create_scheduler_tables.sql
PathLines == {"CopyContentsOfPath", "FileCreatedAtPath", "Step2CopyContentsOfPath"}

\* The run results a console transcript reports.
Outcomes(lines) ==
    {o \in {"Completed", "PartialFallback", "ManualFallback", "Failed"} :
        \/ o = "Completed" /\ "MigrationCompleted" \in Range(lines)
        \/ o = "ManualFallback" /\ "RunManually" \in Range(lines)
        \/ o = "Failed" /\ "MigrationFailed" \in Range(lines)}

----------------------------------------------------------------------------
(* The script *)

EnvValues == {<<>>, <<"">>, <<"v">>}

\* variant: only an unset variable counts as missing
Falsy_UnsetOnly(v) == v = <<>>

Falsy(v) == v = <<>> \/ v[1] = ""

Init ==
    /\ supabaseUrl \in EnvValues
    /\ supabaseAnonKey \in EnvValues
    /\ fileReadable \in BOOLEAN
    /\ fileText \in (IF fileReadable THEN TextsUpTo(RunAlphabet, MaxSrcLen) ELSE {<<>>})
    /\ pc = "start"
    /\ migrationSQL = <<>>
    /\ statements = <<>>
    /\ i = 0
    /\ calls = <<>>
    /\ log = <<>>
    /\ fileReads = 0
    /\ exitCode = -1

CheckConfig ==
    /\ pc = "start"
    /\ IF Falsy(supabaseUrl) \/ Falsy(supabaseAnonKey)
       THEN /\ log' = log \o MissingConfigLines
            /\ exitCode' = 1
            /\ pc' = "exited"
       ELSE /\ pc' = "applyMigration"
            /\ UNCHANGED <<log, exitCode>>
    /\ UNCHANGED <<supabaseUrl, supabaseAnonKey, fileReadable, fileText,
                   migrationSQL, statements, i, calls, fileReads>>

\* variant: a failed read is swallowed and the run goes on with empty text
ReadMigration_IgnoreReadError ==
    /\ pc = "applyMigration"
    /\ log' = Append(log, "Starting")
    /\ fileReads' = fileReads + 1
    /\ migrationSQL' = IF fileReadable THEN fileText ELSE <<>>
    /\ pc' = "split"
    /\ UNCHANGED <<supabaseUrl, supabaseAnonKey, fileReadable, fileText,
                   statements, i, calls, exitCode>>

ReadMigration ==
    /\ pc = "applyMigration"
    /\ log' = Append(log, "Starting")
    /\ fileReads' = fileReads + 1
    /\ IF fileReadable
       THEN /\ migrationSQL' = fileText
            /\ pc' = "split"
       ELSE /\ pc' = "catch"
            /\ UNCHANGED migrationSQL
    /\ UNCHANGED <<supabaseUrl, supabaseAnonKey, fileReadable, fileText,
                   statements, i, calls, exitCode>>

SplitStatements ==
    /\ pc = "split"
    /\ statements' = SplitStatementsOf(migrationSQL)
    /\ log' = log \o <<"FileLoaded", "ExecutingN">>
    /\ i' = 0
    /\ pc' = "loop"
    /\ UNCHANGED <<supabaseUrl, supabaseAnonKey, fileReadable, fileText,
                   migrationSQL, calls, fileReads, exitCode>>

\* variant: with no statement to run the script returns without probing
LoopStep_NoProbeWhenEmpty ==
    /\ pc = "loop"
    /\ IF i < Len(statements)
       THEN /\ log' = Append(log, "ExecutingStatement")
            /\ calls' = Append(calls, [op |-> "exec_sql",
                                       sql |-> statements[i + 1],
                                       idx |-> i,
                                       result |-> "pending"])
            /\ pc' = "await_rpc"
            /\ UNCHANGED <<i, exitCode>>
       ELSE IF Len(statements) = 0
            THEN /\ log' = log \o CompletedLines
                 /\ exitCode' = 0
                 /\ pc' = "exited"
                 /\ UNCHANGED <<calls, i>>
            ELSE /\ pc' = "probe"
                 /\ UNCHANGED <<log, calls, i, exitCode>>
    /\ UNCHANGED <<supabaseUrl, supabaseAnonKey, fileReadable, fileText,
                   migrationSQL, statements, fileReads>>

LoopStep ==
    /\ pc = "loop"
    /\ IF i < Len(statements)
       THEN IF Trim(statements[i + 1]) # <<>>
            THEN /\ log' = Append(log, "ExecutingStatement")
                 /\ calls' = Append(calls, [op |-> "exec_sql",
                                            sql |-> statements[i + 1],
                                            idx |-> i,
                                            result |-> "pending"])
                 /\ pc' = "await_rpc"
                 /\ UNCHANGED i
            ELSE /\ i' = i + 1
                 /\ UNCHANGED <<log, calls, pc>>
       ELSE /\ pc' = "probe"
            /\ UNCHANGED <<log, calls, i>>
    /\ UNCHANGED <<supabaseUrl, supabaseAnonKey, fileReadable, fileText,
                   migrationSQL, statements, fileReads, exitCode>>

CallResults == {"ok", "error", "throw"}

SetLastResult(cs, r) == [cs EXCEPT ![Len(cs)].result = r]

\* variant: the loop goes on to the next statement after a reported error
RpcReturn_NoBreak ==
    /\ pc = "await_rpc"
    /\ \E r \in CallResults :
        /\ calls' = SetLastResult(calls, r)
        /\ CASE r = "ok" -> /\ i' = i + 1
                            /\ pc' = "loop"
                            /\ UNCHANGED log
             [] r = "error" -> /\ log' = Append(log, "RpcNotAvailable")
                               /\ i' = i + 1
                               /\ pc' = "loop"
             [] r = "throw" -> /\ pc' = "catch"
                               /\ UNCHANGED <<log, i>>
    /\ UNCHANGED <<supabaseUrl, supabaseAnonKey, fileReadable, fileText,
                   migrationSQL, statements, fileReads, exitCode>>

\* variant: the statement is submitted again after a reported error
RpcReturn_Retry ==
    /\ pc = "await_rpc"
    /\ \E r \in CallResults :
        /\ calls' = SetLastResult(calls, r)
        /\ CASE r = "ok" -> /\ i' = i + 1
                            /\ pc' = "loop"
                            /\ UNCHANGED log
             [] r = "error" -> /\ log' = Append(log, "RpcNotAvailable")
                               /\ pc' = "loop"
                               /\ UNCHANGED i
             [] r = "throw" -> /\ pc' = "catch"
                               /\ UNCHANGED <<log, i>>
    /\ UNCHANGED <<supabaseUrl, supabaseAnonKey, fileReadable, fileText,
                   migrationSQL, statements, fileReads, exitCode>>

RpcReturn ==
    /\ pc = "await_rpc"
    /\ \E r \in CallResults :
        /\ calls' = SetLastResult(calls, r)
        /\ CASE r = "ok" -> /\ i' = i + 1
                            /\ pc' = "loop"
                            /\ UNCHANGED log
             [] r = "error" -> /\ log' = Append(log, "RpcNotAvailable")
                               /\ pc' = "probe"
                               /\ UNCHANGED i
             [] r = "throw" -> /\ pc' = "catch"
                               /\ UNCHANGED <<log, i>>
    /\ UNCHANGED <<supabaseUrl, supabaseAnonKey, fileReadable, fileText,
                   migrationSQL, statements, fileReads, exitCode>>

IssueProbe ==
    /\ pc = "probe"
    /\ log' = Append(log, "AttemptingDirect")
    /\ calls' = Append(calls, [op |-> "select_limit_0",
                               sql |-> <<>>,
                               idx |-> -1,
                               result |-> "pending"])
    /\ pc' = "await_probe"
    /\ UNCHANGED <<supabaseUrl, supabaseAnonKey, fileReadable, fileText,
                   migrationSQL, statements, i, fileReads, exitCode>>

\* variant: the test of directError is inverted
ProbeReturn_Inverted ==
    /\ pc = "await_probe"
    /\ \E r \in CallResults :
        /\ calls' = SetLastResult(calls, r)
        /\ CASE r = "ok" -> /\ log' = log \o ManualFallbackLines
                            /\ exitCode' = 0
                            /\ pc' = "exited"
             [] r = "error" -> /\ log' = log \o CompletedLines
                               /\ exitCode' = 0
                               /\ pc' = "exited"
             [] r = "throw" -> /\ pc' = "catch"
                               /\ UNCHANGED <<log, exitCode>>
    /\ UNCHANGED <<supabaseUrl, supabaseAnonKey, fileReadable, fileText,
                   migrationSQL, statements, i, fileReads>>

\* variant: success is only reported when every statement was accepted
ProbeReturn_StatementAware ==
    /\ pc = "await_probe"
    /\ \E r \in CallResults :
        /\ calls' = SetLastResult(calls, r)
        /\ CASE r = "error" -> /\ log' = log \o ManualFallbackLines
                               /\ exitCode' = 0
                               /\ pc' = "exited"
             [] r = "ok" -> /\ log' = log \o (IF i = Len(statements)
                                              THEN CompletedLines
                                              ELSE ManualFallbackLines)
                            /\ exitCode' = 0
                            /\ pc' = "exited"
             [] r = "throw" -> /\ pc' = "catch"
                               /\ UNCHANGED <<log, exitCode>>
    /\ UNCHANGED <<supabaseUrl, supabaseAnonKey, fileReadable, fileText,
                   migrationSQL, statements, i, fileReads>>

ProbeReturn ==
    /\ pc = "await_probe"
    /\ \E r \in CallResults :
        /\ calls' = SetLastResult(calls, r)
        /\ CASE r = "error" -> /\ log' = log \o ManualFallbackLines
                               /\ exitCode' = 0
                               /\ pc' = "exited"
             [] r = "ok" -> /\ log' = log \o CompletedLines
                            /\ exitCode' = 0
                            /\ pc' = "exited"
             [] r = "throw" -> /\ pc' = "catch"
                               /\ UNCHANGED <<log, exitCode>>
    /\ UNCHANGED <<supabaseUrl, supabaseAnonKey, fileReadable, fileText,
                   migrationSQL, statements, i, fileReads>>

\* variant: the catch block reports the failure but does not call process.exit(1)
Catch_ExitZero ==
    /\ pc = "catch"
    /\ log' = log \o FailedLines
    /\ exitCode' = 0
    /\ pc' = "exited"
    /\ UNCHANGED <<supabaseUrl, supabaseAnonKey, fileReadable, fileText,
                   migrationSQL, statements, i, calls, fileReads>>

Catch ==
    /\ pc = "catch"
    /\ log' = log \o FailedLines
    /\ exitCode' = 1
    /\ pc' = "exited"
    /\ UNCHANGED <<supabaseUrl, supabaseAnonKey, fileReadable, fileText,
                   migrationSQL, statements, i, calls, fileReads>>

Next ==
    \/ CheckConfig
    \/ ReadMigration
    \/ SplitStatements
    \/ LoopStep
    \/ RpcReturn
    \/ IssueProbe
    \/ ProbeReturn
    \/ Catch

Spec == Init /\ [][Next]_vars

----------------------------------------------------------------------------
(* The splitter alone: the state right after readFileSync returned, for a  *)
(* wider set of texts, followed by the split step of the script.           *)

ExampleText ==
    <<"C", "R", "E", "A", "T", "E", " ", "T", "A", "B", "L", "E", " ", "a",
      " ", "(", "i", "d", " ", "i", "n", "t", ")", ";", "\n", "-", "-",
      " ", "c", "o", "m", "m", "e", "n", "t", "\n", ";", " ", " ", " ",
      "\n", "C", "R", "E", "A", "T", "E", " ", "I", "N", "D", "E", "X",
      " ", "i", "d", "x", " ", "O", "N", " ", "a", "(", "i", "d", ")", ";">>

ExampleStatement1 ==
    <<"C", "R", "E", "A", "T", "E", " ", "T", "A", "B", "L", "E", " ", "a",
      " ", "(", "i", "d", " ", "i", "n", "t", ")">>

ExampleStatement2 ==
    <<"C", "R", "E", "A", "T", "E", " ", "I", "N", "D", "E", "X", " ", "i",
      "d", "x", " ", "O", "N", " ", "a", "(", "i", "d", ")">>

SplitInit ==
    /\ supabaseUrl = <<"v">>
    /\ supabaseAnonKey = <<"v">>
    /\ fileReadable = TRUE
    /\ fileText \in TextsUpTo(SplitAlphabet, MaxTextLen) \cup {ExampleText}
    /\ pc = "split"
    /\ migrationSQL = fileText
    /\ statements = <<>>
    /\ i = 0
    /\ calls = <<>>
    /\ log = <<"Starting">>
    /\ fileReads = 1
    /\ exitCode = -1

SplitNext == SplitStatements

SplitSpec == SplitInit /\ [][SplitNext]_vars

----------------------------------------------------------------------------
(* Properties *)

\* a required value is missing when it is unset or the empty string
ConfigMissing == {supabaseUrl, supabaseAnonKey} \cap {<<>>, <<"">>} # {}

CallIdx == 1..Len(calls)

ExecIdx == {j \in CallIdx : calls[j].op = "exec_sql"}

ProbeIdx == {j \in CallIdx : calls[j].op = "select_limit_0"}

SomeCallThrew == \E j \in CallIdx : calls[j].result = "throw"

\* C1: when either configuration value is unset or empty, the migration
\* file is never read, no exec_sql call and no probe call is ever issued,
\* and when the process has exited its status is non-zero.
C1_MissingConfigStopsBeforeAnyWork ==
    ConfigMissing =>
        /\ fileReads = 0
        /\ calls = <<>>
        /\ pc \in {"start", "exited"}
        /\ pc = "exited" => exitCode > 0

C1_Witness ==
    /\ supabaseAnonKey = <<"">>
    /\ supabaseUrl = <<"v">>
    /\ pc = "exited"
    /\ exitCode = 1

\* C2: once exec_sql has reported a failure for the statement at index k,
\* no statement at a greater index is ever submitted, and every call issued
\* after the failed one is the read-only probe (nothing compensates for the
\* statements below k).
C2_NoSubmissionAfterFailure ==
    \A j \in ExecIdx :
        calls[j].result = "error" =>
            /\ \A m \in ExecIdx : m # j => calls[m].idx < calls[j].idx
            /\ \A m \in CallIdx : m > j => calls[m].op = "select_limit_0"

C2_Witness ==
    /\ pc = "exited"
    /\ Len(statements) = 3
    /\ \E j \in ExecIdx : calls[j].idx = 1 /\ calls[j].result = "error"
    /\ \E j \in ExecIdx : calls[j].idx = 0 /\ calls[j].result = "ok"

\* C3: once the probe has returned, success reports exactly Completed and
\* failure reports exactly ManualFallback with a console line that contains
\* the path of the migration file.
C3_ProbeDecidesOutcome ==
    \A j \in ProbeIdx :
        /\ calls[j].result = "ok" => Outcomes(log) = {"Completed"}
        /\ calls[j].result = "error" =>
              /\ Outcomes(log) = {"ManualFallback"}
              /\ Range(log) \cap PathLines # {}

C3_Witness ==
    /\ pc = "exited"
    /\ \E j \in ProbeIdx : calls[j].result = "error"
    /\ "ManualFallback" \in Outcomes(log)

\* What the splitter is to return, read off the text by position: the
\* fragments are the maximal stretches between consecutive ';', the core of
\* a fragment is what lies between its first and last non-whitespace
\* character, and the usable cores are listed in text order.
SemiPositions(t) == {p \in 1..Len(t) : t[p] = ";"}

FragmentCount(t) == Cardinality(SemiPositions(t)) + 1

NthSemi(t, n) ==
    CHOOSE p \in SemiPositions(t) :
        Cardinality({q \in SemiPositions(t) : q < p}) = n - 1

FragmentAt(t, k) ==
    LET first == IF k = 1 THEN 1 ELSE NthSemi(t, k - 1) + 1
        last == IF k = FragmentCount(t) THEN Len(t) ELSE NthSemi(t, k) - 1
    IN SubSeq(t, first, last)

Core(f) ==
    LET solid == {p \in 1..Len(f) : f[p] \notin WhiteSpace}
    IN IF solid = {} THEN <<>>
       ELSE SubSeq(f, CHOOSE p \in solid : \A q \in solid : p <= q,
                      CHOOSE p \in solid : \A q \in solid : p >= q)

Usable(s) ==
    /\ s # <<>>
    /\ ~(Len(s) >= 2 /\ s[1] = "-" /\ s[2] = "-")
    /\ ~(Len(s) = 2 /\ s[1] = "\\" /\ s[2] = "n")

UsableFragments(t) == {k \in 1..FragmentCount(t) : Usable(Core(FragmentAt(t, k)))}

ExpectedStatements(t) ==
    LET kept == UsableFragments(t)
    IN [j \in 1..Cardinality(kept) |->
          Core(FragmentAt(t, CHOOSE k \in kept :
                                Cardinality({m \in kept : m < k}) = j - 1))]

\* C4: the splitter returns exactly the trimmed fragments between ';' that
\* are non-empty, do not start with "--" and are not the escaped-newline
\* marker, in text order; the example text yields its two statements.
C4_SplitterReturnsUsableFragmentsInOrder ==
    pc = "loop" =>
        /\ statements = ExpectedStatements(migrationSQL)
        /\ migrationSQL = ExampleText =>
              statements = <<ExampleStatement1, ExampleStatement2>>

C4_Witness ==
    /\ pc = "loop"
    /\ migrationSQL = ExampleText
    /\ Len(statements) = 2

\* C5: at exit the status is 0 exactly when Completed, ManualFallback or
\* PartialFallback was reported, and it is non-zero whenever configuration
\* was missing or Failed was reported.
C5_ExitStatusFollowsOutcome ==
    pc = "exited" =>
        /\ exitCode \in {0, 1}
        /\ exitCode = 0 <=>
              Outcomes(log) \cap {"Completed", "ManualFallback", "PartialFallback"} # {}
        /\ (ConfigMissing \/ "Failed" \in Outcomes(log)) => exitCode = 1
        /\ exitCode = 1 => (ConfigMissing \/ Outcomes(log) = {"Failed"})

C5_Witness ==
    /\ pc = "exited"
    /\ ~ConfigMissing
    /\ Outcomes(log) = {"Failed"}
    /\ SomeCallThrew
    /\ exitCode = 1

\* C6: whenever exec_sql returned an error object (and no call threw), the
\* run ends with the ManualFallback outcome and exit status 0.
C6_UnsupportedEndsInManualFallback ==
    (pc = "exited" /\ ~SomeCallThrew
       /\ \E j \in ExecIdx : calls[j].result = "error") =>
        /\ Outcomes(log) = {"ManualFallback"}
        /\ exitCode = 0

\* C7: when reading the migration file fails, no exec_sql call and no probe
\* call is ever issued, and the run ends reporting Failed with the
\* manual-recovery steps and a non-zero exit status.
C7_UnreadableResourceFails ==
    (fileReads > 0 /\ ~fileReadable) =>
        /\ calls = <<>>
        /\ pc \in {"catch", "exited"}
        /\ pc = "exited" =>
              /\ Outcomes(log) = {"Failed"}
              /\ Range(FailedLines) \subseteq Range(log)
              /\ exitCode > 0

C7_Witness ==
    /\ pc = "exited"
    /\ ~fileReadable
    /\ fileReads = 1
    /\ exitCode = 1

\* C8: the exec_sql calls carry the statements in sequence order starting
\* with the first, each is issued only after the previous one returned
\* success, at most one call is outstanding, and no statement is submitted
\* twice.
C8_SequentialOneAtATime ==
    /\ \A j \in ExecIdx :
          /\ calls[j].idx = j - 1
          /\ j <= Len(statements) /\ calls[j].sql = statements[j]
          /\ j > 1 => calls[j - 1].op = "exec_sql" /\ calls[j - 1].result = "ok"
    /\ \A j \in CallIdx : calls[j].result = "pending" => j = Len(calls)
    /\ \A j, m \in ExecIdx : calls[j].idx = calls[m].idx => j = m

C8_Witness ==
    /\ Len(statements) = 3
    /\ Cardinality(ExecIdx) = 3
    /\ \A j \in ExecIdx : calls[j].result = "ok"

\* C9: a run that loaded the file and in which no call threw ends with the
\* probe issued exactly once, as the last call of the run; with no usable
\* statement the statement sequence is empty and the probe is the only call.
C9_ProbeOnceAfterLoop ==
    (pc = "exited" /\ fileReads > 0 /\ fileReadable /\ ~SomeCallThrew) =>
        /\ ProbeIdx = {Len(calls)}
        /\ ExecIdx = 1..(Len(calls) - 1)
        /\ UsableFragments(fileText) = {} => statements = <<>> /\ Len(calls) = 1

C9_Witness ==
    /\ pc = "exited"
    /\ fileText # <<>>
    /\ statements = <<>>
    /\ ProbeIdx = {1}
    /\ ~SomeCallThrew

\* The outcome as a function of the probe result alone.
OutcomeOfProbe(r) == IF r = "ok" THEN {"Completed"} ELSE {"ManualFallback"}

\* C10: in a finished run in which nothing was thrown, the reported outcome
\* is OutcomeOfProbe of the probe result, whatever the statement results
\* were (so any two such runs with the same probe result report the same
\* outcome), and PartialFallback is never reported.
C10_OutcomeIgnoresStatementResults ==
    /\ "PartialFallback" \notin Outcomes(log)
    /\ (pc = "exited" /\ ~ConfigMissing /\ fileReadable /\ ~SomeCallThrew) =>
          /\ Cardinality(ProbeIdx) = 1
          /\ \A j \in ProbeIdx : Outcomes(log) = OutcomeOfProbe(calls[j].result)

C10_Witness ==
    /\ pc = "exited"
    /\ Outcomes(log) = {"Completed"}
    /\ \E j \in ExecIdx : calls[j].result = "error"
    /\ Cardinality(ExecIdx) < Len(statements)

====
